---- MODULE Spec2Model ----
(***************************************************************************)
(* A model of queryv4.py, the AWS Signature Version 4 query-string signing *)
(* script.  The script is one straight-line program; every block of it is  *)
(* one action, and pc is the position between the blocks.                   *)
(*                                                                         *)
(* A Python str is a sequence of one-character strings, so that lstrip,    *)
(* urlparse, parse_qsl, sorted and urlencode are computed character by     *)
(* character as the library computes them.  SHA-256 and HMAC-SHA256 are    *)
(* free constructors (records of their arguments): injective, nothing else.*)
(***************************************************************************)
EXTENDS Integers, Sequences, FiniteSets, Bags, TLC

(***************************************************************************)
(* Bounds of the explored inputs.                                          *)
(***************************************************************************)
\* the longest list of query parameters an input URL carries
MaxParams == 2

(***************************************************************************)
(* The state: the script's variables, the position pc between its blocks,  *)
(* what it has printed and requested, and the parts the request was        *)
(* written from (input, which the script never reads).                     *)
(***************************************************************************)
VARIABLES
  pc, input, request, http_verb, url, parsed_url, host_parts, service, region,
  access_key, secret_key, amzdate, datestamp, query_params, canonical_query_string,
  scope, credential_string, headers, canonical_headers, payload_hash,
  canonical_request_path, canonical_request, string_to_sign, signing_key,
  signature, signed_url, printed, sent, error

vars ==
  <<pc, input, request, http_verb, url, parsed_url, host_parts, service, region,
    access_key, secret_key, amzdate, datestamp, query_params, canonical_query_string,
    scope, credential_string, headers, canonical_headers, payload_hash,
    canonical_request_path, canonical_request, string_to_sign, signing_key,
    signature, signed_url, printed, sent, error>>

(***************************************************************************)
(* Characters.  Ascii[i] is the character with byte value 31 + i; three    *)
(* characters the inputs never hold (double quote, backslash, back quote)  *)
(* are place holders, so every other character sits at its byte value.     *)
(***************************************************************************)
Ascii ==
  <<" ","!","<dq>","#","$","%","&","'","(",")","*","+",",","-",".","/",
    "0","1","2","3","4","5","6","7","8","9",":",";","<","=",">","?",
    "@","A","B","C","D","E","F","G","H","I","J","K","L","M","N","O",
    "P","Q","R","S","T","U","V","W","X","Y","Z","[","<bs>","]","^","_",
    "<bq>","a","b","c","d","e","f","g","h","i","j","k","l","m","n","o",
    "p","q","r","s","t","u","v","w","x","y","z","{","|","}","~">>

Chars == {Ascii[i] : i \in 1..Len(Ascii)}

\* ord(c): the byte value of a character
OrdTable == [c \in Chars |-> 31 + (CHOOSE i \in 1..Len(Ascii) : Ascii[i] = c)]

Ord(c) == OrdTable[c]

\* chr(n)
Chr(n) == Ascii[n - 31]

Digits == {"0","1","2","3","4","5","6","7","8","9"}

UpperCase == {"A","B","C","D","E","F","G","H","I","J","K","L","M",
              "N","O","P","Q","R","S","T","U","V","W","X","Y","Z"}

LowerCase == {"a","b","c","d","e","f","g","h","i","j","k","l","m",
              "n","o","p","q","r","s","t","u","v","w","x","y","z"}

HexDigits == <<"0","1","2","3","4","5","6","7","8","9","A","B","C","D","E","F">>

(***************************************************************************)
(* str operations                                                          *)
(***************************************************************************)
\* s[i:] of Python, with i counted from 1: the characters from position i on
From(s, i) == IF i > Len(s) THEN <<>> ELSE SubSeq(s, i, Len(s))

\* s[:n]
Take(s, n) == IF n >= Len(s) THEN s ELSE SubSeq(s, 1, n)

\* the first position from i on of a character of cs in s, 0 when there is none
FindFrom(s, cs, i) ==
  LET hits == {j \in i..Len(s) : s[j] \in cs}
  IN  IF hits = {} THEN 0 ELSE CHOOSE j \in hits : \A k \in hits : j <= k

\* the concatenation f[lo] \o ... \o f[hi] of the strings f[i]
RECURSIVE Cat(_, _, _)
Cat(f, lo, hi) ==
  IF lo > hi THEN <<>>
  ELSE IF lo = hi THEN f[lo]
  ELSE LET mid == (lo + hi) \div 2 IN Cat(f, lo, mid) \o Cat(f, mid + 1, hi)

\* s.find(c) + 1
Find(s, c) == FindFrom(s, {c}, 1)

StartsWith(s, p) == Len(s) >= Len(p) /\ SubSeq(s, 1, Len(p)) = p

\* s.split(c): the pieces of s between the occurrences of the characters cs
RECURSIVE Split(_, _)
Split(s, cs) ==
  LET i == FindFrom(s, cs, 1)
  IN  IF i = 0 THEN <<s>>
      ELSE <<Take(s, i - 1)>> \o Split(From(s, i + 1), cs)

\* s.split(c, 1)
Split1(s, c) ==
  LET i == Find(s, c)
  IN  IF i = 0 THEN <<s>> ELSE <<Take(s, i - 1), From(s, i + 1)>>

\* sep.join(parts)
RECURSIVE Join(_, _)
Join(parts, sep) ==
  IF parts = <<>> THEN <<>>
  ELSE IF Len(parts) = 1 THEN parts[1]
  ELSE parts[1] \o sep \o Join(Tail(parts), sep)

\* s.replace(c, r) for a single character c
Replace(s, c, r) ==
  Cat([i \in 1..Len(s) |-> IF s[i] = c THEN r ELSE <<s[i]>>], 1, Len(s))

\* s.lstrip(chars): drops every leading character that is in the set chars
RECURSIVE LStrip(_, _)
LStrip(s, chars) ==
  IF s # <<>> /\ Head(s) \in chars THEN LStrip(Tail(s), chars) ELSE s

\* s.lower()
LowerChar(c) == IF c \in UpperCase THEN Chr(Ord(c) + 32) ELSE c

Lower(s) == [i \in 1..Len(s) |-> LowerChar(s[i])]

\* str comparison of Python 2: byte by byte, a proper prefix is smaller
RECURSIVE StrLess(_, _)
StrLess(a, b) ==
  IF b = <<>> THEN FALSE
  ELSE IF a = <<>> THEN TRUE
  ELSE IF Head(a) = Head(b) THEN StrLess(Tail(a), Tail(b))
  ELSE Ord(Head(a)) < Ord(Head(b))

\* tuple comparison of Python: by the first item, then by the second
PairLess(p, q) == StrLess(p[1], q[1]) \/ (p[1] = q[1] /\ StrLess(p[2], q[2]))

\* sorted(pairs): insertion into an ascending list, equal pairs kept in order
RECURSIVE Insert(_, _)
Insert(p, l) ==
  IF l = <<>> THEN <<p>>
  ELSE IF PairLess(p, Head(l)) THEN <<p>> \o l
  ELSE <<Head(l)>> \o Insert(p, Tail(l))

RECURSIVE Sorted(_)
Sorted(l) ==
  IF l = <<>> THEN <<>>
  ELSE Insert(l[Len(l)], Sorted(SubSeq(l, 1, Len(l) - 1)))

(***************************************************************************)
(* urlparse.urlparse (Python 2.7).  The inputs hold no ';', so the split   *)
(* of the path's ;parameters, which urlparse adds to urlsplit, never acts. *)
(***************************************************************************)
\* urlparse.scheme_chars
SchemeChars == LowerCase \cup UpperCase \cup Digits \cup {"+", "-", "."}

\* the test urlsplit makes before it takes url[:i] as the scheme: i > 0, every
\* character of url[:i] is a scheme character, and the rest is no port number
HasScheme(u) ==
  LET i == Find(u, ":")
      rest == From(u, i + 1)
  IN  /\ i > 1
      /\ \A j \in 1..(i - 1) : u[j] \in SchemeChars
      /\ (rest = <<>> \/ \E j \in 1..Len(rest) : rest[j] \notin Digits)

\* urlparse._splitnetloc(url, 2): the netloc ends at the first of / ? #
SplitNetloc(u) ==
  LET d == FindFrom(u, {"/", "?", "#"}, 3)
  IN  IF d = 0 THEN <<From(u, 3), <<>> >> ELSE <<SubSeq(u, 3, d - 1), From(u, d)>>

UrlParse(u) ==
  LET i      == Find(u, ":")
      scheme == IF HasScheme(u) THEN Lower(Take(u, i - 1)) ELSE <<>>
      u1     == IF HasScheme(u) THEN From(u, i + 1) ELSE u
      hasNet == StartsWith(u1, <<"/", "/">>)
      netloc == IF hasNet THEN SplitNetloc(u1)[1] ELSE <<>>
      u2     == IF hasNet THEN SplitNetloc(u1)[2] ELSE u1
      f      == Split1(u2, "#")
      u3     == f[1]
      q      == Split1(u3, "?")
  IN  [scheme   |-> scheme,
       netloc   |-> netloc,
       path     |-> q[1],
       query    |-> IF Len(q) = 2 THEN q[2] ELSE <<>>,
       fragment |-> IF Len(f) = 2 THEN f[2] ELSE <<>>]

(***************************************************************************)
(* urlparse.parse_qsl, urllib.quote_plus, urllib.urlencode (Python 2.7)    *)
(***************************************************************************)
IsHex(c) == \E i \in 1..16 : HexDigits[i] = c \/ LowerChar(HexDigits[i]) = c

HexVal(c) == (CHOOSE i \in 1..16 : HexDigits[i] = c \/ LowerChar(HexDigits[i]) = c) - 1

\* position i of s starts an escape: a % and two hex digits
IsEscape(s, i) ==
  i >= 1 /\ i + 2 <= Len(s) /\ s[i] = "%" /\ IsHex(s[i + 1]) /\ IsHex(s[i + 2])

\* urlparse.unquote: %XY with two hex digits becomes the character of that
\* byte value; any other % stays as it is.  (A hex digit is no %, so no
\* escape starts inside another.)
Unquote(s) ==
  Cat([i \in 1..Len(s) |->
         IF IsEscape(s, i) THEN <<Chr(16 * HexVal(s[i + 1]) + HexVal(s[i + 2]))>>
         ELSE IF IsEscape(s, i - 1) \/ IsEscape(s, i - 2) THEN <<>>
         ELSE <<s[i]>>],
      1, Len(s))

\* the body of parse_qsl's loop for one name_value, with keep_blank_values = 0
\* and strict_parsing = 0: a piece without '=' or with an empty value is dropped
ParseNameValue(nv) ==
  LET kv == Split1(nv, "=")
  IN  IF Len(kv) # 2 THEN <<>>
      ELSE IF Len(kv[2]) = 0 THEN <<>>
      ELSE << <<Unquote(Replace(kv[1], "+", <<" ">>)),
                Unquote(Replace(kv[2], "+", <<" ">>))>> >>

RECURSIVE ParsePieces(_)
ParsePieces(pieces) ==
  IF pieces = <<>> THEN <<>>
  ELSE ParseNameValue(Head(pieces)) \o ParsePieces(Tail(pieces))

\* parse_qsl(qs): the pieces are split at '&' and at ';'
ParseQsl(qs) == ParsePieces(Split(qs, {"&", ";"}))

\* urllib.always_safe
AlwaysSafe == LowerCase \cup UpperCase \cup Digits \cup {"_", ".", "-"}

QuoteChar(c, safe) ==
  IF c \in AlwaysSafe \cup safe THEN <<c>>
  ELSE <<"%", HexDigits[(Ord(c) \div 16) + 1], HexDigits[(Ord(c) % 16) + 1]>>

\* urllib.quote(s, safe)
Quote(s, safe) == Cat([i \in 1..Len(s) |-> QuoteChar(s[i], safe)], 1, Len(s))

\* urllib.quote_plus(s), safe = ''
QuotePlus(s) ==
  IF Find(s, " ") # 0 THEN Replace(Quote(s, {" "}), " ", <<"+">>)
  ELSE Quote(s, {})

RECURSIVE EncodePairs(_)
EncodePairs(pairs) ==
  IF pairs = <<>> THEN <<>>
  ELSE <<QuotePlus(Head(pairs)[1]) \o <<"=">> \o QuotePlus(Head(pairs)[2])>>
       \o EncodePairs(Tail(pairs))

\* urllib.urlencode(pairs)
UrlEncode(pairs) == Join(EncodePairs(pairs), <<"&">>)

\* urllib.urlencode(pairs).replace('+', '%20'), as the script does each time
AwsEncode(pairs) == Replace(UrlEncode(pairs), "+", <<"%", "2", "0">>)

(***************************************************************************)
(* hashlib and hmac: free constructors                                     *)
(***************************************************************************)
\* hashlib.sha256(msg)
Sha256(msg) == [alg |-> "sha256", msg |-> msg]

\* hmac.new(key, msg, hashlib.sha256)
Hmac(key, msg) == [alg |-> "hmac-sha256", key |-> key, msg |-> msg]

\* sign(key, msg)
sign(key, msg) == Hmac(key, msg)

\* getSignatureKey with the region and the service signed in the other order
getSignatureKeySwapped(key, dateStamp, regionName, serviceName) ==
  LET kDate    == sign(<<"A","W","S","4">> \o key, dateStamp)
      kService == sign(kDate, serviceName)
      kRegion  == sign(kService, regionName)
      kSigning == sign(kRegion, <<"a","w","s","4","_","r","e","q","u","e","s","t">>)
  IN  kSigning

\* getSignatureKey(key, dateStamp, regionName, serviceName)
getSignatureKey(key, dateStamp, regionName, serviceName) ==
  LET kDate    == sign(<<"A","W","S","4">> \o key, dateStamp)
      kRegion  == sign(kDate, regionName)
      kService == sign(kRegion, serviceName)
      kSigning == sign(kService, <<"a","w","s","4","_","r","e","q","u","e","s","t">>)
  IN  kSigning

(***************************************************************************)
(* The inputs: the command line, the environment and the clock.            *)
(***************************************************************************)
\* the request is '[GET ]URL' (usage lines of the script)
Prefixes == {<<>>, <<"G","E","T"," ">>}

Schemes == {<<"h","t","t","p","s">>, <<"T","F","T","P">>}

Hosts ==
  {<<>>,
   <<"s","3",".","a","m","a","z","o","n","a","w","s",".","c","o","m">>,
   <<"e","c","2",".","e","u","-","w","e","s","t","-","1",".",
     "a","m","a","z","o","n","a","w","s",".","c","o","m">>}

Paths == {<<>>, <<"/">>}

\* query parameters as they are written in the URL: (name, value)
RawParams ==
  {<< <<"b">>, <<"2">> >>,
   << <<"a">>, <<"+","%","2","B">> >>,
   << <<"a">>, <<>> >>}

ParamLists == UNION {[1..n -> RawParams] : n \in 0..MaxParams}

RECURSIVE RawPieces(_)
RawPieces(params) ==
  IF params = <<>> THEN <<>>
  ELSE <<Head(params)[1] \o <<"=">> \o Head(params)[2]>> \o RawPieces(Tail(params))

\* the URL a user writes for these parts
UrlOf(in) ==
  in.scheme \o <<":","/","/">> \o in.host \o in.path
  \o (IF in.params = <<>> THEN <<>> ELSE <<"?">> \o Join(RawPieces(in.params), <<"&">>))

Inputs ==
  [prefix : Prefixes, scheme : Schemes, host : Hosts, path : Paths, params : ParamLists]

\* os.environ.get(name): None when the variable is not set
Unset == [set |-> FALSE, val |-> <<>>]

EnvValue(v) == [set |-> TRUE, val |-> v]

AccessKeys == {Unset, EnvValue(<<>>), EnvValue(<<"A","K","I","D">>)}

SecretKeys == {Unset, EnvValue(<<>>), EnvValue(<<"w","J">>)}

\* datetime.datetime.utcnow()
Times ==
  {[year |-> 2015, month |-> 8, day |-> 30, hour |-> 12, minute |-> 36, second |-> 0],
   [year |-> 2026, month |-> 11, day |-> 2, hour |-> 3, minute |-> 4, second |-> 59]}

\* %Y, %m, %d, %H, %M, %S of strftime: the number in w digits, zero padded
RECURSIVE Pad(_, _)
Pad(n, w) ==
  IF w = 0 THEN <<>> ELSE Pad(n \div 10, w - 1) \o <<HexDigits[(n % 10) + 1]>>

\* t.strftime("%Y%m%d")
DateStamp(t) == Pad(t.year, 4) \o Pad(t.month, 2) \o Pad(t.day, 2)

\* t.strftime("%Y%m%dT%H%M%SZ")
AmzDate(t) ==
  DateStamp(t) \o <<"T">> \o Pad(t.hour, 2) \o Pad(t.minute, 2) \o Pad(t.second, 2)
  \o <<"Z">>

(***************************************************************************)
(* The expressions of the script                                           *)
(***************************************************************************)
\* url = request.lstrip("GET ")
StripVerb(req) == LStrip(req, {"G", "E", "T", " "})

\* service = host_parts[0], in both branches
ServiceOf(parts) == parts[1]

\* RegionOf with the test on three labels instead of four
RegionOfThreeLabels(parts) ==
  IF Len(parts) = 3 THEN parts[2] ELSE <<"u","s","-","e","a","s","t","-","1">>

\* region = host_parts[1] if len(host_parts) == 4, else 'us-east-1'
RegionOf(parts) ==
  IF Len(parts) = 4 THEN parts[2] ELSE <<"u","s","-","e","a","s","t","-","1">>

\* canonical_query_string = urllib.urlencode(sorted(query_params)).replace('+', '%20')
CanonicalQueryString(qp) == AwsEncode(Sorted(qp))

\* scope = datestamp + '/' + region + '/' + service + '/' + 'aws4_request'
Scope(ds, reg, svc) ==
  ds \o <<"/">> \o reg \o <<"/">> \o svc \o <<"/">>
  \o <<"a","w","s","4","_","r","e","q","u","e","s","t">>

\* CredentialString with the secret key in the place of the access key
CredentialStringOfSecret(ak, sc) == secret_key.val \o <<"/">> \o sc

\* credential_string = access_key + '/' + scope
CredentialString(ak, sc) == ak \o <<"/">> \o sc

signed_headers == <<"h","o","s","t">>

\* headers = [...]
Headers(ad, cs) ==
  << << <<"X","-","A","m","z","-","A","l","g","o","r","i","t","h","m">>,
        <<"A","W","S","4","-","H","M","A","C","-","S","H","A","2","5","6">> >>,
     << <<"X","-","A","m","z","-","D","a","t","e">>, ad >>,
     << <<"X","-","A","m","z","-","E","x","p","i","r","e","s">>, <<"3","0","0">> >>,
     << <<"X","-","A","m","z","-","C","r","e","d","e","n","t","i","a","l">>, cs >>,
     << <<"X","-","A","m","z","-","S","i","g","n","e","d","H","e","a","d","e","r","s">>,
        signed_headers >> >>

\* canonical_headers = urllib.urlencode(sorted(headers)).replace('+', '%20')
CanonicalHeaders(hs) == AwsEncode(Sorted(hs))

\* hashlib.sha256("").hexdigest()
EmptyPayloadHash ==
  <<"e","3","b","0","c","4","4","2","9","8","f","c","1","c","1","4",
    "9","a","f","b","f","4","c","8","9","9","6","f","b","9","2","4",
    "2","7","a","e","4","1","e","4","6","4","9","b","9","3","4","c",
    "a","4","9","5","9","9","1","b","7","8","5","2","b","8","5","5">>

UnsignedPayload == <<"U","N","S","I","G","N","E","D","-","P","A","Y","L","O","A","D">>

\* PayloadHash with its two branches exchanged
PayloadHashExchanged(svc) ==
  IF svc = <<"s","3">> THEN EmptyPayloadHash ELSE UnsignedPayload

\* payload_hash
PayloadHash(svc) == IF svc = <<"s","3">> THEN UnsignedPayload ELSE EmptyPayloadHash

\* CanonicalRequestPath without the replacement of the empty path
CanonicalRequestPathKept(path) == path

\* canonical_request_path
CanonicalRequestPath(path) == IF path = <<>> THEN <<"/">> ELSE path

NL == <<"\n">>

\* canonical_request, both branches of the test on canonical_query_string
CanonicalRequest(verb, crpath, cqs, ch, netloc, ph) ==
  IF cqs = <<>>
  THEN verb \o NL \o crpath \o NL \o ch \o NL \o <<"h","o","s","t",":">> \o netloc
       \o NL \o NL \o signed_headers \o NL \o ph
  ELSE verb \o NL \o crpath \o NL \o cqs \o <<"&">> \o ch \o NL
       \o <<"h","o","s","t",":">> \o netloc \o NL \o NL \o signed_headers \o NL \o ph

\* string_to_sign: the text, followed by the hex digest of the canonical request
StringToSign(ad, sc, cr) ==
  [text   |-> <<"A","W","S","4","-","H","M","A","C","-","S","H","A","2","5","6">>
              \o NL \o ad \o NL \o sc \o NL,
   digest |-> Sha256(cr)]

\* SignedUrl with the parameters sorted as they are in the canonical request
SignedUrlSorted(pu, pah, sig) ==
  [text |-> pu.scheme \o <<":","/","/">> \o pu.netloc \o pu.path \o <<"?">>
            \o AwsEncode(Sorted(pah))
            \o <<"&","X","-","A","m","z","-","S","i","g","n","a","t","u","r","e","=">>,
   signature |-> sig]

\* signed_url, both branches of the test on parsed_url.path: the text, followed
\* by the hex digest that is the signature
SignedUrl(pu, pah, sig) ==
  IF pu.path = <<>>
  THEN [text |-> pu.scheme \o <<":","/","/">> \o pu.netloc \o <<"?">> \o AwsEncode(pah)
                 \o <<"&","X","-","A","m","z","-","S","i","g","n","a","t","u","r","e","=">>,
        signature |-> sig]
  ELSE [text |-> pu.scheme \o <<":","/","/">> \o pu.netloc \o pu.path \o <<"?">>
                 \o AwsEncode(pah)
                 \o <<"&","X","-","A","m","z","-","S","i","g","n","a","t","u","r","e","=">>,
        signature |-> sig]

(***************************************************************************)
(* The script                                                              *)
(***************************************************************************)
\* the value of a name the script has not bound yet
NoUrl == [scheme |-> <<>>, netloc |-> <<>>, path |-> <<>>, query |-> <<>>,
          fragment |-> <<>>]

NoDigest == [alg |-> "none"]

NoStringToSign == [text |-> <<>>, digest |-> NoDigest]

NoSignedUrl == [text |-> <<>>, signature |-> NoDigest]

\* request = sys.argv[1]
Init ==
  /\ pc = "start"
  /\ input \in Inputs
  /\ request = input.prefix \o UrlOf(input)
  /\ http_verb = <<>>
  /\ url = <<>>
  /\ parsed_url = NoUrl
  /\ host_parts = <<>>
  /\ service = <<>>
  /\ region = <<>>
  /\ access_key = Unset
  /\ secret_key = Unset
  /\ amzdate = <<>>
  /\ datestamp = <<>>
  /\ query_params = <<>>
  /\ canonical_query_string = <<>>
  /\ scope = <<>>
  /\ credential_string = <<>>
  /\ headers = <<>>
  /\ canonical_headers = <<>>
  /\ payload_hash = <<>>
  /\ canonical_request_path = <<>>
  /\ canonical_request = <<>>
  /\ string_to_sign = NoStringToSign
  /\ signing_key = NoDigest
  /\ signature = NoDigest
  /\ signed_url = NoSignedUrl
  /\ printed = FALSE
  /\ sent = FALSE
  /\ error = "none"

\* lines 53-68: the verb, the url to sign and its parts, then the service and
\* the region from the host
ParseRequest ==
  /\ pc = "start"
  /\ http_verb' = <<"G","E","T">>
  /\ url' = StripVerb(request)
  /\ parsed_url' = UrlParse(url')
  /\ host_parts' = Split(parsed_url'.netloc, {"."})
  /\ service' = ServiceOf(host_parts')
  /\ region' = RegionOf(host_parts')
  /\ pc' = "parsed"
  /\ UNCHANGED <<input, request, access_key, secret_key, amzdate, datestamp,
                 query_params, canonical_query_string, scope,
                 credential_string, headers, canonical_headers, payload_hash,
                 canonical_request_path, canonical_request, string_to_sign,
                 signing_key, signature, signed_url, printed, sent, error>>

\* lines 70-77: the credentials from the environment, the timestamp and the date
ReadEnvironment ==
  /\ pc = "parsed"
  /\ access_key' \in AccessKeys
  /\ secret_key' \in SecretKeys
  /\ \E t \in Times :
       /\ amzdate' = AmzDate(t)
       /\ datestamp' = DateStamp(t)
  /\ pc' = "environment"
  /\ UNCHANGED <<input, request, http_verb, url, parsed_url, host_parts,
                 service, region, query_params, canonical_query_string, scope,
                 credential_string, headers, canonical_headers, payload_hash,
                 canonical_request_path, canonical_request, string_to_sign,
                 signing_key, signature, signed_url, printed, sent, error>>

\* lines 79-107: the canonical query string, the scope, the credential string
\* and the auth parameters; access_key + '/' raises TypeError when access_key
\* is None
BuildQueryAndHeaders ==
  /\ pc = "environment"
  /\ query_params' = ParseQsl(parsed_url.query)
  /\ canonical_query_string' = CanonicalQueryString(query_params')
  /\ scope' = Scope(datestamp, region, service)
  /\ IF access_key.set
     THEN /\ credential_string' = CredentialString(access_key.val, scope')
          /\ headers' = Headers(amzdate, credential_string')
          /\ canonical_headers' = CanonicalHeaders(headers')
          /\ pc' = "headers"
          /\ error' = error
     ELSE /\ pc' = "failed"
          /\ error' = "TypeError"
          /\ UNCHANGED <<credential_string, headers, canonical_headers>>
  /\ UNCHANGED <<input, request, http_verb, url, parsed_url, host_parts,
                 service, region, access_key, secret_key, amzdate, datestamp,
                 payload_hash, canonical_request_path, canonical_request,
                 string_to_sign, signing_key, signature, signed_url, printed,
                 sent>>

\* lines 109-126: the payload hash, the path and the canonical request
BuildCanonicalRequest ==
  /\ pc = "headers"
  /\ payload_hash' = PayloadHash(service)
  /\ canonical_request_path' = CanonicalRequestPath(parsed_url.path)
  /\ canonical_request' =
       CanonicalRequest(http_verb, canonical_request_path', canonical_query_string,
                        canonical_headers, parsed_url.netloc, payload_hash')
  /\ pc' = "canonical"
  /\ UNCHANGED <<input, request, http_verb, url, parsed_url, host_parts,
                 service, region, access_key, secret_key, amzdate, datestamp,
                 query_params, canonical_query_string, scope,
                 credential_string, headers, canonical_headers, string_to_sign,
                 signing_key, signature, signed_url, printed, sent, error>>

\* lines 128-145: the string to sign, the signing key, the signature and the
\* signed url (params_and_headers = query_params + headers); "AWS4" + key
\* raises TypeError when secret_key is None
SignRequest ==
  /\ pc = "canonical"
  /\ string_to_sign' = StringToSign(amzdate, scope, canonical_request)
  /\ IF secret_key.set
     THEN /\ signing_key' = getSignatureKey(secret_key.val, datestamp, region, service)
          /\ signature' = Hmac(signing_key', string_to_sign')
          /\ signed_url' = SignedUrl(parsed_url, query_params \o headers, signature')
          /\ pc' = "signed"
          /\ error' = error
     ELSE /\ pc' = "failed"
          /\ error' = "TypeError"
          /\ UNCHANGED <<signing_key, signature, signed_url>>
  /\ UNCHANGED <<input, request, http_verb, url, parsed_url, host_parts,
                 service, region, access_key, secret_key, amzdate, datestamp,
                 query_params, canonical_query_string, scope,
                 credential_string, headers, canonical_headers, payload_hash,
                 canonical_request_path, canonical_request, printed, sent>>

\* lines 147-158: print the signed url, request it, print the response
SendRequest ==
  /\ pc = "signed"
  /\ printed' = TRUE
  /\ sent' = TRUE
  /\ pc' = "done"
  /\ UNCHANGED <<input, request, http_verb, url, parsed_url, host_parts,
                 service, region, access_key, secret_key, amzdate, datestamp,
                 query_params, canonical_query_string, scope,
                 credential_string, headers, canonical_headers, payload_hash,
                 canonical_request_path, canonical_request, string_to_sign,
                 signing_key, signature, signed_url, error>>

Next ==
  \/ ParseRequest
  \/ ReadEnvironment
  \/ BuildQueryAndHeaders
  \/ BuildCanonicalRequest
  \/ SignRequest
  \/ SendRequest

Spec == Init /\ [][Next]_vars

(***************************************************************************)
(* What the properties read off the outputs                                *)
(***************************************************************************)
\* the lines of a text
Lines(s) == Split(s, {"\n"})

\* sub occurs in s as a run of consecutive characters
Contains(s, sub) ==
  \E i \in 1..(Len(s) - Len(sub) + 1) : SubSeq(s, i, i + Len(sub) - 1) = sub

EndsWith(s, p) == Len(s) >= Len(p) /\ SubSeq(s, Len(s) - Len(p) + 1, Len(s)) = p

\* the key=value pieces of a query string
Pieces(q) == IF q = <<>> THEN <<>> ELSE Split(q, {"&"})

\* the (key, value) pairs a query string lists, percent-decoded
PairsOf(q) ==
  LET ps == Pieces(q)
  IN  [i \in 1..Len(ps) |->
         LET kv == Split1(ps[i], "=")
         IN  <<Unquote(kv[1]), IF Len(kv) = 2 THEN Unquote(kv[2]) ELSE <<>> >>]

Count(l, x) == Cardinality({i \in 1..Len(l) : l[i] = x})

\* two lists hold the same elements, each as many times
SameBag(a, b) ==
  LET x == a
      y == b
  IN  /\ Len(x) = Len(y)
      /\ \A i \in 1..Len(x) : Count(x, x[i]) = Count(y, x[i])

\* a list of pairs ascends by key, then by value, in byte order
Ascending(l) == \A i \in 1..(Len(l) - 1) : ~PairLess(l[i + 1], l[i])

\* the canonical request is built
CanonicalBuilt == pc \in {"canonical", "signed", "done"}

\* the signed url is built
SignedBuilt == pc \in {"signed", "done"}

\* a run on a well-formed request with both credentials present, in which
\* stripping the verb left the URL as it was written
CleanRun ==
  /\ url = UrlOf(input)
  /\ parsed_url.netloc # <<>>
  /\ access_key.set /\ access_key.val # <<>>
  /\ secret_key.set /\ secret_key.val # <<>>

\* the fields of the canonical request
CanonicalPathField == Lines(canonical_request)[2]

CanonicalQueryField == Lines(canonical_request)[3]

PayloadHashField ==
  LET ls == Lines(canonical_request) IN ls[Len(ls)]

SignatureParameter ==
  <<"&","X","-","A","m","z","-","S","i","g","n","a","t","u","r","e","=">>

\* the query of the signed url that precedes &X-Amz-Signature=
SignedQuery ==
  LET q == Find(signed_url.text, "?")
  IN  SubSeq(signed_url.text, q + 1, Len(signed_url.text) - Len(SignatureParameter))

\* the signed url up to its '?'
SignedUrlBeforeQuery == Take(signed_url.text, Find(signed_url.text, "?") - 1)

\* the query parameters the input URL was written with, decoded
InputPairs ==
  [i \in 1..Len(input.params) |->
     <<Unquote(Replace(input.params[i][1], "+", <<" ">>)),
       Unquote(Replace(input.params[i][2], "+", <<" ">>))>>]

\* the five auth parameters of this run
AuthPairs ==
  << << <<"X","-","A","m","z","-","A","l","g","o","r","i","t","h","m">>,
        <<"A","W","S","4","-","H","M","A","C","-","S","H","A","2","5","6">> >>,
     << <<"X","-","A","m","z","-","D","a","t","e">>, amzdate >>,
     << <<"X","-","A","m","z","-","E","x","p","i","r","e","s">>, <<"3","0","0">> >>,
     << <<"X","-","A","m","z","-","C","r","e","d","e","n","t","i","a","l">>,
        access_key.val \o <<"/">> \o scope >>,
     << <<"X","-","A","m","z","-","S","i","g","n","e","d","H","e","a","d","e","r","s">>,
        <<"h","o","s","t">> >> >>

\* the labels of the host, counted by its dots
DotCount(s) == Cardinality({i \in 1..Len(s) : s[i] = "."})

FirstLabel(s) == IF Find(s, ".") = 0 THEN s ELSE Take(s, Find(s, ".") - 1)

SecondLabel(s) == FirstLabel(From(s, Find(s, ".") + 1))

(***************************************************************************)
(* C1                                                                      *)
(***************************************************************************)
\* C1: the canonical query string lists the original query parameters and
\* the five auth parameters as one sequence, ascending by key, then by value,
\* in byte order.
C1_CanonicalQueryMergedSorted ==
  (CanonicalBuilt /\ CleanRun) =>
    /\ SameBag(PairsOf(CanonicalQueryField), query_params \o headers)
    /\ Ascending(PairsOf(CanonicalQueryField))

OtherSecrets == {<<>>, <<"w","J">>, <<"w","K">>}

OtherDates == {DateStamp(t) : t \in Times}

OtherNames ==
  {<<"s","3">>, <<"e","c","2">>, <<"u","s","-","e","a","s","t","-","1">>,
   <<"e","u","-","w","e","s","t","-","1">>}

\* C4: the signing key is HMAC(HMAC(HMAC(HMAC("AWS4" + secret, date), region),
\* service), "aws4_request"), each step keyed by the step before; with an
\* injective HMAC the same inputs give the same key, and any other secret,
\* date, region or service (two of them swapped included) gives another key.
C4_SigningKeyChain ==
  SignedBuilt =>
    /\ signing_key.msg = <<"a","w","s","4","_","r","e","q","u","e","s","t">>
    /\ signing_key.key.msg = service
    /\ signing_key.key.key.msg = region
    /\ signing_key.key.key.key.msg = datestamp
    /\ signing_key.key.key.key.key = <<"A","W","S","4">> \o secret_key.val
    /\ \A k \in OtherSecrets, d \in OtherDates, r \in OtherNames, v \in OtherNames :
         (getSignatureKey(k, d, r, v) = signing_key)
           <=> (<<k, d, r, v>> = <<secret_key.val, datestamp, region, service>>)

\* a finished run with a secret, on a host of four labels
C4_Witness ==
  /\ pc = "done"
  /\ secret_key.val = <<"w","J">>
  /\ service = <<"e","c","2">>
  /\ region = <<"e","u","-","w","e","s","t","-","1">>

(***************************************************************************)
(* C5                                                                      *)
(***************************************************************************)
\* C5: a signed url is built, printed or requested only when the URL has a
\* host and both credentials are present and non-empty; on any other input
\* the run fails before it builds one.
C5_SignsOnlyValidInput ==
  (SignedBuilt \/ printed \/ sent) =>
       /\ parsed_url.netloc # <<>>
       /\ access_key.set /\ access_key.val # <<>>
       /\ secret_key.set /\ secret_key.val # <<>>

(***************************************************************************)
(* C6                                                                      *)
(***************************************************************************)
\* C6: for a request 'URL' or 'GET URL' the verb is GET and the url that is
\* parsed and signed is URL, character for character.
C6_UrlKeptCharacterForCharacter ==
  pc # "start" => (http_verb = <<"G","E","T">> /\ url = UrlOf(input))

(***************************************************************************)
(* C7                                                                      *)
(***************************************************************************)
\* C7: the service is the host's first label; the region is the second label
\* when the host has exactly four labels and us-east-1 otherwise; the scope of
\* the credential, the scope of the string to sign and the key derivation use
\* that same region and service.
C7_ServiceAndRegionFromHost ==
  SignedBuilt =>
    /\ service = FirstLabel(parsed_url.netloc)
    /\ region = IF DotCount(parsed_url.netloc) = 3
                THEN SecondLabel(parsed_url.netloc)
                ELSE <<"u","s","-","e","a","s","t","-","1">>
    /\ Split(scope, {"/"}) =
         <<datestamp, region, service, <<"a","w","s","4","_","r","e","q","u","e","s","t">> >>
    /\ credential_string = access_key.val \o <<"/">> \o scope
    /\ PairsOf(CanonicalQueryField)[Len(query_params) + 2][2] = credential_string
    /\ Lines(string_to_sign.text)[3] = scope
    /\ signing_key.key.msg = service
    /\ signing_key.key.key.msg = region

\* a finished run on a host of four labels
C7_Witness ==
  /\ pc = "done"
  /\ DotCount(parsed_url.netloc) = 3
  /\ region = <<"e","u","-","w","e","s","t","-","1">>

(***************************************************************************)
(* C8                                                                      *)
(***************************************************************************)
\* C8: the last field of the canonical request is UNSIGNED-PAYLOAD exactly
\* when the host's first label is s3, and otherwise the hex SHA-256 digest of
\* the empty payload.
C8_PayloadHashByService ==
  CanonicalBuilt =>
    LET last  == PayloadHashField
        label == FirstLabel(parsed_url.netloc)
    IN  /\ (last = UnsignedPayload) <=> (label = <<"s","3">>)
        /\ (label # <<"s","3">>) => (last = EmptyPayloadHash)

\* a finished run on an s3 host
C8_Witness ==
  pc = "done" /\ service = <<"s","3">> /\ PayloadHashField = UnsignedPayload

(***************************************************************************)
(* C9                                                                      *)
(***************************************************************************)
\* C9: a secret key that is present never occurs in the canonical request,
\* in the string to sign or in the signed url; it enters the key derivation
\* only, and what the outputs hold of the credentials is the access key, in
\* X-Amz-Credential, and the signature.
C9_SecretKeyNotInOutputs ==
  (secret_key.set /\ secret_key.val # <<>>) =>
    /\ ~Contains(canonical_request, secret_key.val)
    /\ ~Contains(string_to_sign.text, secret_key.val)
    /\ ~Contains(signed_url.text, secret_key.val)
    /\ CanonicalBuilt => string_to_sign.digest \in {NoDigest, Sha256(canonical_request)}
    /\ SignedBuilt =>
         /\ signed_url.signature = Hmac(signing_key, string_to_sign)
         /\ signing_key.key.key.key.key = <<"A","W","S","4">> \o secret_key.val
         /\ PairsOf(SignedQuery)[Len(query_params) + 4][2]
              = access_key.val \o <<"/">> \o scope

\* a finished run with both credentials present
C9_Witness ==
  /\ pc = "done"
  /\ secret_key.val = <<"w","J">>
  /\ access_key.val = <<"A","K","I","D">>

(***************************************************************************)
(* C10                                                                     *)
(***************************************************************************)
\* C10: the pairs of the canonical query string, the pairs of the signed
\* url's query before X-Amz-Signature, and the input URL's pairs (each as
\* many times as written, pairs with an empty value included) plus the five
\* auth parameters are the same multiset.
C10_NothingOfTheInputLost ==
  (SignedBuilt /\ CleanRun) =>
    /\ SameBag(PairsOf(CanonicalQueryField), PairsOf(SignedQuery))
    /\ SameBag(PairsOf(CanonicalQueryField), InputPairs \o AuthPairs)

====
